---- MODULE Spec2Model ----
(***************************************************************************)
(* LayerNormalizationGrad: the CPU kernel LayerNormGrad<T>::Compute and    *)
(* the CUDA kernel LayerNormGrad<T, U>::ComputeInternal.                   *)
(*                                                                         *)
(* Tensor elements are exact rationals <<numerator, denominator>>; the     *)
(* rounding of float/double/MLFloat16 arithmetic is not modelled.  A       *)
(* denominator of 0 stands for NaN (the mean of an empty column, 0/0).     *)
(***************************************************************************)
EXTENDS Integers, Sequences, FiniteSets, TLC

VARIABLES T, axis_, X_shape, Y_grad, X, scale, mean, inv_std_var,
          cpu, cuda, again, par

vars == <<T, axis_, X_shape, Y_grad, X, scale, mean, inv_std_var,
          cpu, cuda, again, par>>

inputs == <<T, axis_, X_shape, Y_grad, X, scale, mean, inv_std_var>>

(*************************** bounds ****************************************)
MaxRank == 2
MaxDim == 2
MaxSeed == 1
MaxElems == 4

(*************************** exact arithmetic ******************************)
Abs(n) == IF n < 0 THEN -n ELSE n

RECURSIVE GCD(_, _)
GCD(a, b) == IF b = 0 THEN a ELSE GCD(b, a % b)

NaN == <<0, 0>>
R(n) == <<n, 1>>
Zero == R(0)
IsNaN(a) == a[2] = 0

RNorm(n, d) ==
  IF d = 0 THEN NaN
  ELSE LET g == GCD(Abs(n), Abs(d))
           s == IF d < 0 THEN -1 ELSE 1
       IN <<(s * n) \div g, (s * d) \div g>>

RAdd(a, b) == IF IsNaN(a) \/ IsNaN(b) THEN NaN
              ELSE RNorm(a[1] * b[2] + b[1] * a[2], a[2] * b[2])
RNeg(a) == <<-a[1], a[2]>>
RSub(a, b) == RAdd(a, RNeg(b))
RMul(a, b) == IF IsNaN(a) \/ IsNaN(b) THEN NaN
              ELSE RNorm(a[1] * b[1], a[2] * b[2])
\* division by a count (Eigen's mean divides the sum by the number of rows)
RDivInt(a, k) == IF IsNaN(a) THEN NaN ELSE RNorm(a[1], a[2] * k)

\* sum of f[lo], ..., f[hi]  (f a function on integers; empty sum is 0)
RECURSIVE RSum(_, _, _)
RSum(f, lo, hi) == IF lo > hi THEN Zero ELSE RAdd(RSum(f, lo, hi - 1), f[hi])

(*************************** TensorShape ***********************************)
RECURSIVE ProdDims(_, _, _)
ProdDims(shape, lo, hi) ==
  IF lo > hi THEN 1 ELSE ProdDims(shape, lo, hi - 1) * shape[hi]

NumDimensions(shape) == Len(shape)
\* product of the dimensions at positions [0, dimension)
SizeToDimension(shape, dimension) == ProdDims(shape, 1, dimension)
\* product of the dimensions at positions [dimension, rank)
SizeFromDimension(shape, dimension) == ProdDims(shape, dimension + 1, Len(shape))

HandleNegativeAxis(axis, tensor_rank) ==
  IF axis < 0 THEN axis + tensor_rank ELSE axis

(*************************** Eigen views ***********************************)
\* Eigen maps are column-major: element (i, c) of a rows x cols map over a
\* flat buffer is buffer[c * rows + i] (0-based), i.e. data[c*rows + i + 1].
EigenArrayMap(data, rows, cols) ==
  [i \in 0..(rows - 1), c \in 0..(cols - 1) |-> data[c * rows + i + 1]]
EigenVectorArrayMap(data, n) == [i \in 0..(n - 1) |-> data[i + 1]]

\* arr.rowwise() - vec.transpose(): every row minus the 1 x cols vector
RowwiseSub(arr, vec, rows, cols) ==
  [i \in 0..(rows - 1), c \in 0..(cols - 1) |-> RSub(arr[i, c], vec[c])]
\* arr.rowwise() * vec.transpose()
RowwiseMul(arr, vec, rows, cols) ==
  [i \in 0..(rows - 1), c \in 0..(cols - 1) |-> RMul(arr[i, c], vec[c])]
\* arr.colwise() * vec: every column times the rows x 1 vector
ColwiseMul(arr, vec, rows, cols) ==
  [i \in 0..(rows - 1), c \in 0..(cols - 1) |-> RMul(arr[i, c], vec[i])]
\* a * b, coefficient-wise
CwiseMul(a, b, rows, cols) ==
  [i \in 0..(rows - 1), c \in 0..(cols - 1) |-> RMul(a[i, c], b[i, c])]
CwiseSub(a, b, rows, cols) ==
  [i \in 0..(rows - 1), c \in 0..(cols - 1) |-> RSub(a[i, c], b[i, c])]
\* arr.colwise().mean(): 1 x cols, the mean of each column
ColwiseMean(arr, rows, cols) ==
  [c \in 0..(cols - 1) |->
     RDivInt(RSum([i \in 0..(rows - 1) |-> arr[i, c]], 0, rows - 1), rows)]
\* arr.rowwise().sum(): rows x 1, the sum of each row
RowwiseSum(arr, rows, cols) ==
  [i \in 0..(rows - 1) |-> RSum([c \in 0..(cols - 1) |-> arr[i, c]], 0, cols - 1)]
\* assignment through a mutable map writes the flat buffer back
StoreArray(arr, rows, cols) ==
  [k \in 1..(rows * cols) |-> arr[(k - 1) % rows, (k - 1) \div rows]]
StoreVector(vec, n) == [k \in 1..n |-> vec[k - 1]]

(*************************** kernel registrations **************************)
\* REGISTER_KERNEL_TYPED(float), REGISTER_KERNEL_TYPED(double)
CpuKernels == {"float", "double"}
\* the CPU kernel reads mean and inv_std_var as float whatever T is
CpuStatType == "float"
\* REGISTER_GRADIENT_KERNEL_TYPED(T, U)
CudaKernels == {<<"float", "float">>, <<"double", "float">>, <<"MLFloat16", "float">>}
TensorTypes == {"float", "double", "MLFloat16"}
BitWidth(t) == CASE t = "MLFloat16" -> 16 [] t = "float" -> 32 [] t = "double" -> 64

(*************************** the result of one kernel call *****************)
Idle == [status |-> "idle", events |-> <<>>, N |-> 0, M |-> 0,
         T |-> "none", U |-> "none",
         X_grad |-> <<>>, scale_grad |-> <<>>, bias_grad |-> <<>>]

\* The effects of a handler whose statements are steps, in order: when the
\* ORT_ENFORCE holds all of them happen, when it throws only those before it.
Effects(steps, enforced) ==
  LET at == CHOOSE i \in 1..Len(steps) : steps[i] = "ORT_ENFORCE"
  IN IF enforced THEN SubSeq(steps, 1, at - 1) \o SubSeq(steps, at + 1, Len(steps))
     ELSE SubSeq(steps, 1, at - 1)
Did(events, e) == \E i \in 1..Len(events) : events[i] = e

(*************************** CPU: LayerNormGrad<T>::Compute ****************)
\* variant: N and M exchanged
SplitShapeSwapped(shape, ax) ==
  LET axis == HandleNegativeAxis(ax, NumDimensions(shape))
  IN [N |-> SizeFromDimension(shape, axis), M |-> SizeToDimension(shape, axis)]

\* axis, N and M of the call
SplitShape(shape, ax) ==
  LET axis == HandleNegativeAxis(ax, NumDimensions(shape))
  IN [N |-> SizeToDimension(shape, axis), M |-> SizeFromDimension(shape, axis)]

\* ORT_ENFORCE(M != 1)
EnforceFeatureSize(M) == M # 1

\* variant: the factor inv_std_var is left out
X_mean_difference_only(x, mu, isv, M, N) ==
  RowwiseSub(EigenArrayMap(x, M, N), EigenVectorArrayMap(mu, N), M, N)

X_mean_difference_over_std_var(x, mu, isv, M, N) ==
  RowwiseMul(RowwiseSub(EigenArrayMap(x, M, N), EigenVectorArrayMap(mu, N), M, N),
             EigenVectorArrayMap(isv, N), M, N)

ArrayA(yg, x, mu, isv, M, N) ==
  CwiseMul(EigenArrayMap(yg, M, N), X_mean_difference_over_std_var(x, mu, isv, M, N), M, N)

ArrayB(yg, sc, isv, M, N) ==
  RowwiseMul(ColwiseMul(EigenArrayMap(yg, M, N), EigenVectorArrayMap(sc, M), M, N),
             EigenVectorArrayMap(isv, N), M, N)

\* variant: C = B * A
ArrayC_timesA(yg, x, sc, mu, isv, M, N) ==
  CwiseMul(ArrayB(yg, sc, isv, M, N), ArrayA(yg, x, mu, isv, M, N), M, N)

ArrayC(yg, x, sc, mu, isv, M, N) ==
  CwiseMul(ArrayB(yg, sc, isv, M, N), X_mean_difference_over_std_var(x, mu, isv, M, N), M, N)

mean_B(yg, sc, isv, M, N) == ColwiseMean(ArrayB(yg, sc, isv, M, N), M, N)

mean_C(yg, x, sc, mu, isv, M, N) == ColwiseMean(ArrayC(yg, x, sc, mu, isv, M, N), M, N)

\* variant: the last term is added
X_grad_arr_plus(yg, x, sc, mu, isv, M, N) ==
  CwiseSub(RowwiseSub(ArrayB(yg, sc, isv, M, N), mean_B(yg, sc, isv, M, N), M, N),
           RowwiseMul(X_mean_difference_over_std_var(x, mu, isv, M, N),
                      [c \in 0..(N - 1) |-> RNeg(mean_C(yg, x, sc, mu, isv, M, N)[c])], M, N),
           M, N)

\* X_grad_arr = B.rowwise() - mean_B - X_mean_difference_over_std_var.rowwise() * mean_C
X_grad_arr(yg, x, sc, mu, isv, M, N) ==
  CwiseSub(RowwiseSub(ArrayB(yg, sc, isv, M, N), mean_B(yg, sc, isv, M, N), M, N),
           RowwiseMul(X_mean_difference_over_std_var(x, mu, isv, M, N),
                      mean_C(yg, x, sc, mu, isv, M, N), M, N),
           M, N)

\* variant: Y_grad_arr.rowwise().mean()
bias_grad_vec_mean(yg, M, N) ==
  [i \in 0..(M - 1) |-> RDivInt(RowwiseSum(EigenArrayMap(yg, M, N), M, N)[i], N)]

\* bias_grad_vec = Y_grad_arr.rowwise().sum()
bias_grad_vec(yg, M, N) == RowwiseSum(EigenArrayMap(yg, M, N), M, N)

\* variant: the sum of Y_grad * (X - mean(X)), without inv_std_var
scale_grad_vec_no_inv(yg, x, mu, isv, M, N) ==
  RowwiseSum(CwiseMul(EigenArrayMap(yg, M, N), X_mean_difference_only(x, mu, isv, M, N),
                      M, N), M, N)

\* scale_grad_vec = A.rowwise().sum()
scale_grad_vec(yg, x, mu, isv, M, N) == RowwiseSum(ArrayA(yg, x, mu, isv, M, N), M, N)

\* variant: the precondition is checked after the outputs are requested
CpuStepsEnforceLate == <<"Output(0)", "Output(1)", "Output(2)", "ORT_ENFORCE", "Eigen">>

\* the statements of Compute after N and M are known, in source order
CpuSteps == <<"ORT_ENFORCE", "Output(0)", "Output(1)", "Output(2)", "Eigen">>

\* the whole handler, as a function of the kernel's attribute and its inputs
LayerNormGradCompute(t, ax, shape, yg, x, sc, mu, isv) ==
  LET nm == SplitShape(shape, ax)
      N == nm.N
      M == nm.M
      ev == Effects(CpuSteps, EnforceFeatureSize(M))
      ran == Did(ev, "Eigen")
  IN [status |-> IF EnforceFeatureSize(M) THEN "ok" ELSE "failed",
      events |-> ev, N |-> N, M |-> M, T |-> t, U |-> CpuStatType,
      X_grad |-> IF ran THEN StoreArray(X_grad_arr(yg, x, sc, mu, isv, M, N), M, N)
                 ELSE <<>>,
      scale_grad |-> IF ran THEN StoreVector(scale_grad_vec(yg, x, mu, isv, M, N), M)
                     ELSE <<>>,
      bias_grad |-> IF ran THEN StoreVector(bias_grad_vec(yg, M, N), M) ELSE <<>>]

Compute ==
  /\ cpu.status = "idle"
  /\ T \in CpuKernels
  /\ cpu' = LayerNormGradCompute(T, axis_, X_shape, Y_grad, X, scale, mean, inv_std_var)
  /\ UNCHANGED <<inputs, cuda, again, par>>

(*************************** CUDA: HostLayerNormGradient *******************)
\* Tensors are row-major n1 x n2: element (i1, i2) is buffer[i1 * n2 + i2].
At(data, n2, i1, i2) == data[i1 * n2 + i2 + 1]

\* const int part_size = 16
part_size == 16

\* Phase 1 splits the n1 outer rows into part_size contiguous row ranges.
RowsPerPart(n1) == (n1 + part_size - 1) \div part_size
PartBegin(p, n1) == p * RowsPerPart(n1)
PartEnd(p, n1) ==
  IF (p + 1) * RowsPerPart(n1) < n1 THEN (p + 1) * RowsPerPart(n1) ELSE n1
\* partition p accumulates the rows PartBegin, ..., PartEnd - 1
PartRows(p, n1) == PartBegin(p, n1)..(PartEnd(p, n1) - 1)

\* the partial sums of partition p for feature i2
PartGradGamma(p, i2, n1, n2, dout, input, mu, invvar) ==
  RSum([i1 \in PartRows(p, n1) |->
          RMul(RMul(At(dout, n2, i1, i2), RSub(At(input, n2, i1, i2), mu[i1 + 1])),
               invvar[i1 + 1])],
       PartBegin(p, n1), PartEnd(p, n1) - 1)
PartGradBeta(p, i2, n1, n2, dout) ==
  RSum([i1 \in PartRows(p, n1) |-> At(dout, n2, i1, i2)],
       PartBegin(p, n1), PartEnd(p, n1) - 1)

\* a scratch buffer as GetScratchBuffer returns it: its contents are not set
Uninitialized(len) == [k \in 1..len |-> NaN]

\* partition p stores n2 values, one per feature, in its slots of a buffer
WritePart(buf, p, n2, vals) ==
  SubSeq(buf, 1, p * n2) \o vals \o SubSeq(buf, (p + 1) * n2 + 1, Len(buf))

Phase1(scr, bufs, p, n1, n2, dout, input, mu, invvar) ==
  LET G == [i2 \in 1..n2 |-> PartGradGamma(p, i2 - 1, n1, n2, dout, input, mu, invvar)]
      B == [i2 \in 1..n2 |-> PartGradBeta(p, i2 - 1, n1, n2, dout)]
      s1 == [scr EXCEPT ![bufs.gamma] = WritePart(@, p, n2, G)]
  IN [s1 EXCEPT ![bufs.beta] = WritePart(@, p, n2, B)]

RECURSIVE Phase1UpTo(_, _, _, _, _, _, _, _, _)
Phase1UpTo(scr, bufs, p, n1, n2, dout, input, mu, invvar) ==
  IF p < 0 THEN scr
  ELSE Phase1(Phase1UpTo(scr, bufs, p - 1, n1, n2, dout, input, mu, invvar),
              bufs, p, n1, n2, dout, input, mu, invvar)

\* Phase 2: for feature i2, the sum of the part_size partial values
Phase2(buf, i2, n2) ==
  RSum([p \in 0..(part_size - 1) |-> buf[p * n2 + i2 + 1]], 0, part_size - 1)

\* grad_input of cell (i1, i2): steps 1-6 of the dense algorithm, per cell
GradInput(i1, i2, n2, dout, input, gamma, mu, invvar) ==
  LET D(l) == RMul(RSub(At(input, n2, i1, l), mu[i1 + 1]), invvar[i1 + 1])
      Bv(l) == RMul(RMul(At(dout, n2, i1, l), gamma[l + 1]), invvar[i1 + 1])
      sumB == RSum([l \in 0..(n2 - 1) |-> Bv(l)], 0, n2 - 1)
      sumC == RSum([l \in 0..(n2 - 1) |-> RMul(Bv(l), D(l))], 0, n2 - 1)
  IN RSub(RSub(Bv(i2), RDivInt(sumB, n2)), RMul(D(i2), RDivInt(sumC, n2)))

GradInputAll(n1, n2, dout, input, gamma, mu, invvar) ==
  [k \in 1..(n1 * n2) |->
     GradInput((k - 1) \div n2, (k - 1) % n2, n2, dout, input, gamma, mu, invvar)]

(*************************** CUDA: LayerNormGrad<T, U>::ComputeInternal ****)
\* GetScratchBuffer<CudaU>(part_size * n2)
ScratchLen(n2) == part_size * n2
\* variant: part_grad_gamma is handed over twice
ScratchArgsAliased == [gamma |-> "part_grad_gamma", beta |-> "part_grad_gamma"]

\* the two scratch buffers handed to HostLayerNormGradient
ScratchArgs == [gamma |-> "part_grad_gamma", beta |-> "part_grad_beta"]
Scratch(n2) == [part_grad_gamma |-> Uninitialized(ScratchLen(n2)),
                part_grad_beta |-> Uninitialized(ScratchLen(n2))]

\* ORT_ENFORCE(n2 != 1, "n2 should not be 1")
EnforceN2(n2) == n2 # 1

\* the statements of ComputeInternal after n1 and n2 are known, in source order
CudaSteps == <<"ORT_ENFORCE", "Output(0)", "Output(1)", "Output(2)",
               "GetScratchBuffer", "GetScratchBuffer", "HostLayerNormGradient">>

LayerNormGradComputeInternal(k, ax, shape, yg, x, sc, mu, isv) ==
  LET nn == SplitShape(shape, ax)
      n1 == nn.N
      n2 == nn.M
      scr == Phase1UpTo(Scratch(n2), ScratchArgs, part_size - 1, n1, n2, yg, x, mu, isv)
      ev == Effects(CudaSteps, EnforceN2(n2))
      ran == Did(ev, "HostLayerNormGradient")
  IN [status |-> IF EnforceN2(n2) THEN "ok" ELSE "failed",
      events |-> ev, N |-> n1, M |-> n2, T |-> k[1], U |-> k[2],
      X_grad |-> IF ran THEN GradInputAll(n1, n2, yg, x, sc, mu, isv) ELSE <<>>,
      scale_grad |-> IF ran THEN [j \in 1..n2 |-> Phase2(scr[ScratchArgs.gamma], j - 1, n2)]
                     ELSE <<>>,
      bias_grad |-> IF ran THEN [j \in 1..n2 |-> Phase2(scr[ScratchArgs.beta], j - 1, n2)]
                    ELSE <<>>]

ComputeInternal ==
  /\ cuda.status = "idle"
  /\ \E k \in CudaKernels :
       /\ k[1] = T
       /\ cuda' = LayerNormGradComputeInternal(k, axis_, X_shape, Y_grad, X, scale,
                                               mean, inv_std_var)
  /\ UNCHANGED <<inputs, cpu, again, par>>

(*************************** CUDA: the call, worker by worker **************)
\* One call of ComputeInternal in which the Phase-1 workers (one per
\* partition) and the Phase-2 workers (one per feature, and the grad_input
\* kernel) are separate steps.  owner records the partition that last wrote
\* each scratch slot (-1: none), clash that a slot was written by workers of
\* two partitions, rowsBy how many workers accumulated each row, and early
\* that Phase 2 read a slot while a Phase-1 write was still outstanding.
Partitions == 0..(part_size - 1)
BufferNames == {"part_grad_gamma", "part_grad_beta"}

NoPar == [pc |-> "idle", scr |-> Scratch(0), done1 |-> {}, done2 |-> {}, dx |-> FALSE,
          owner |-> [b \in BufferNames |-> <<>>], clash |-> FALSE,
          rowsBy |-> <<>>, early |-> FALSE,
          X_grad |-> <<>>, scale_grad |-> <<>>, bias_grad |-> <<>>]

\* the kernels of one call are launched on one stream: Phase 2 starts when
\* every Phase-1 worker has finished
Phase1Complete(done1) == done1 = Partitions

Launch ==
  /\ par.pc = "idle"
  /\ LET nn == SplitShape(X_shape, axis_)
     IN par' = IF EnforceN2(nn.M)
               THEN [par EXCEPT !.pc = "phase1",
                                !.scr = Scratch(nn.M),
                                !.owner = [b \in BufferNames |->
                                             [k \in 1..ScratchLen(nn.M) |-> -1]],
                                !.rowsBy = [i \in 1..nn.N |-> 0],
                                !.scale_grad = [k \in 1..nn.M |-> NaN],
                                !.bias_grad = [k \in 1..nn.M |-> NaN]]
               ELSE [par EXCEPT !.pc = "failed"]
  /\ UNCHANGED <<inputs, cpu, cuda, again>>

Phase1Worker(p) ==
  /\ par.pc = "phase1"
  /\ p \notin par.done1
  /\ LET nn == SplitShape(X_shape, axis_)
         used == {ScratchArgs.gamma, ScratchArgs.beta}
         mine == (p * nn.M + 1)..((p + 1) * nn.M)
         lo == PartBegin(p, nn.N)
         hi == PartEnd(p, nn.N)
         P == [i2 \in 1..nn.M |-> p]
     IN par' = [par EXCEPT
          !.scr = Phase1(@, ScratchArgs, p, nn.N, nn.M, Y_grad, X, mean, inv_std_var),
          !.done1 = @ \cup {p},
          !.owner = [b \in BufferNames |->
                       IF b \in used THEN WritePart(@[b], p, nn.M, P) ELSE @[b]],
          !.clash = @ \/ \E b \in used, k \in mine : par.owner[b][k] \notin {-1, p},
          !.rowsBy = [i \in 1..nn.N |-> IF lo < i /\ i <= hi THEN @[i] + 1 ELSE @[i]]]
  /\ UNCHANGED <<inputs, cpu, cuda, again>>

Phase2Worker(i2) ==
  /\ par.pc = "phase1"
  /\ Phase1Complete(par.done1)
  /\ i2 \notin par.done2
  /\ LET nn == SplitShape(X_shape, axis_)
     IN par' = [par EXCEPT
          !.scale_grad[i2 + 1] = Phase2(par.scr[ScratchArgs.gamma], i2, nn.M),
          !.bias_grad[i2 + 1] = Phase2(par.scr[ScratchArgs.beta], i2, nn.M),
          !.done2 = @ \cup {i2},
          !.early = @ \/ par.done1 # Partitions]
  /\ UNCHANGED <<inputs, cpu, cuda, again>>

GradInputKernel ==
  /\ par.pc = "phase1"
  /\ Phase1Complete(par.done1)
  /\ ~par.dx
  /\ LET nn == SplitShape(X_shape, axis_)
     IN par' = [par EXCEPT
          !.X_grad = GradInputAll(nn.N, nn.M, Y_grad, X, scale, mean, inv_std_var),
          !.dx = TRUE]
  /\ UNCHANGED <<inputs, cpu, cuda, again>>

\* the call returns: the scratch buffers are released
Return ==
  /\ par.pc = "phase1"
  /\ par.dx
  /\ par.done2 = 0..(SplitShape(X_shape, axis_).M - 1)
  /\ par' = [par EXCEPT !.pc = "done", !.scr = Scratch(0)]
  /\ UNCHANGED <<inputs, cpu, cuda, again>>

(*************************** further calls of the CPU kernel ***************)
\* the same kernel invoked again with the upstream gradient multiplied by k
ScaleBy(k, data) == [i \in 1..Len(data) |-> RMul(R(k), data[i])]
Factors == {-1, 0, 3}

\* the same kernel invoked again with other inputs than Y_grad changed
Shift(data) == [i \in 1..Len(data) |-> RAdd(data[i], R(1))]
Perturbations == {"X", "scale", "mean", "inv_std_var", "all"}
Perturbed(what, name, data) ==
  IF what = name \/ what = "all"
  THEN (IF name = "inv_std_var" THEN ScaleBy(2, data) ELSE Shift(data))
  ELSE data

NoAgain == [kind |-> "none", k |-> 1, res |-> Idle]

ComputeScaled ==
  /\ again.kind = "none"
  /\ T \in CpuKernels
  /\ \E k \in Factors :
       again' = [kind |-> "scaled", k |-> k,
                 res |-> LayerNormGradCompute(T, axis_, X_shape, ScaleBy(k, Y_grad), X,
                                              scale, mean, inv_std_var)]
  /\ UNCHANGED <<inputs, cpu, cuda, par>>

ComputePerturbed ==
  /\ again.kind = "none"
  /\ T \in CpuKernels
  /\ \E w \in Perturbations :
       again' = [kind |-> w, k |-> 1,
                 res |-> LayerNormGradCompute(T, axis_, X_shape, Y_grad,
                                              Perturbed(w, "X", X),
                                              Perturbed(w, "scale", scale),
                                              Perturbed(w, "mean", mean),
                                              Perturbed(w, "inv_std_var", inv_std_var))]
  /\ UNCHANGED <<inputs, cpu, cuda, par>>

(*************************** the calls checked ******************************)
Pattern(len, seed, f(_, _)) == [k \in 1..len |-> f(k, seed)]
PatY(k, seed) == R(((k + seed) % 3) - 1)
PatX(k, seed) == R((k * k + seed) % 4)
PatScale(k, seed) == R(1 + ((k + seed) % 2))
PatMean(k, seed) == R((k + seed) % 2)
PatInv(k, seed) == IF (k + seed) % 2 = 0 THEN R(1) ELSE <<1, 2>>

Shapes == UNION {[1..r -> 0..MaxDim] : r \in 1..MaxRank}


\* every shape up to the bounds, every valid axis, patterned data
InitShapes ==
  /\ T \in TensorTypes
  /\ X_shape \in Shapes
  /\ axis_ \in (-MaxRank)..(MaxRank - 1)
  /\ -Len(X_shape) <= axis_ /\ axis_ <= Len(X_shape) - 1
  /\ \E seed \in 0..MaxSeed :
       LET nm == SplitShape(X_shape, axis_)
       IN /\ Y_grad = Pattern(nm.N * nm.M, seed, PatY)
          /\ X = Pattern(nm.N * nm.M, seed, PatX)
          /\ scale = Pattern(nm.M, seed, PatScale)
          /\ mean = Pattern(nm.N, seed, PatMean)
          /\ inv_std_var = Pattern(nm.N, seed, PatInv)

\* accepted two-dimensional calls (feature size 0 included) with every
\* combination of the elements of Y_grad and X
YVals == {R(-1), R(2)}
XVals == {R(0), R(3)}

InitFree ==
  /\ T = "float"
  /\ axis_ = 1
  /\ \E N \in 0..MaxElems, M \in 0..MaxElems, seed \in 0..MaxSeed :
       /\ M # 1 /\ N * M <= MaxElems /\ N + M > 0
       /\ X_shape = <<N, M>>
       /\ Y_grad \in [1..(N * M) -> YVals]
       /\ X \in [1..(N * M) -> XVals]
       /\ scale = Pattern(M, seed, PatScale)
       /\ mean = Pattern(N, seed, PatMean)
       /\ inv_std_var = Pattern(N, seed, PatInv)

\* calls with at least as many outer rows as partitions
BigRows == {part_size, part_size + 1, 2 * part_size + 1}

InitBig ==
  /\ T = "float"
  /\ axis_ = 1
  /\ \E N \in BigRows, seed \in 0..MaxSeed :
       /\ X_shape = <<N, 2>>
       /\ Y_grad = Pattern(N * 2, seed, PatY)
       /\ X = Pattern(N * 2, seed, PatX)
       /\ scale = Pattern(2, seed, PatScale)
       /\ mean = Pattern(N, seed, PatMean)
       /\ inv_std_var = Pattern(N, seed, PatInv)

Init ==
  /\ (InitShapes \/ InitFree \/ InitBig)
  /\ cpu = Idle /\ cuda = Idle /\ again = NoAgain /\ par = NoPar

Next == Compute \/ ComputeInternal

Spec == Init /\ [][Next]_vars

NextRel == Compute \/ ComputeScaled \/ ComputePerturbed

InitRel ==
  /\ (InitFree \/ InitBig)
  /\ cpu = Idle /\ cuda = Idle /\ again = NoAgain /\ par = NoPar

SpecRel == InitRel /\ [][NextRel]_vars

\* the calls of the worker-by-worker specification: patterned data, more
\* rows than partitions and the rejected feature size
ParShapes == {<<part_size + 1, 2>>, <<2, 1>>}

InitPar ==
  /\ T = "float"
  /\ axis_ = 1
  /\ X_shape \in ParShapes
  /\ LET N == X_shape[1]
         M == X_shape[2]
     IN /\ Y_grad = Pattern(N * M, 0, PatY)
        /\ X = Pattern(N * M, 0, PatX)
        /\ scale = Pattern(M, 0, PatScale)
        /\ mean = Pattern(N, 0, PatMean)
        /\ inv_std_var = Pattern(N, 0, PatInv)
  /\ cpu = Idle /\ cuda = Idle /\ again = NoAgain /\ par = NoPar

NextPar ==
  \/ Launch
  \/ \E p \in Partitions : Phase1Worker(p)
  \/ \E i2 \in 0..(SplitShape(X_shape, axis_).M - 1) : Phase2Worker(i2)
  \/ GradInputKernel
  \/ Return

SpecPar == InitPar /\ [][NextPar]_vars

(*************************** properties ************************************)
RECURSIVE ProdSeq(_)
ProdSeq(dims) == IF dims = <<>> THEN 1 ELSE Head(dims) * ProdSeq(Tail(dims))

\* the resolved axis, the outer size and the feature size of the call
ResolvedAxis == IF axis_ >= 0 THEN axis_ ELSE axis_ + Len(X_shape)
Outer == ProdSeq(SubSeq(X_shape, 1, ResolvedAxis))
Feature == ProdSeq(SubSeq(X_shape, ResolvedAxis + 1, Len(X_shape)))

\* the tensors by outer row n and feature index j (both from 0)
dY(n, j) == Y_grad[n * Feature + j + 1]
Xv(n, j) == X[n * Feature + j + 1]
Dv(n, j) == RMul(RSub(Xv(n, j), mean[n + 1]), inv_std_var[n + 1])
Bv(n, j) == RMul(RMul(dY(n, j), scale[j + 1]), inv_std_var[n + 1])
MeanOverFeature(f(_, _), n) ==
  RMul(<<1, Feature>>, RSum([j \in 0..(Feature - 1) |-> f(n, j)], 0, Feature - 1))
BDv(n, j) == RMul(Bv(n, j), Dv(n, j))
SumOverOuter(f(_, _), j) == RSum([n \in 0..(Outer - 1) |-> f(n, j)], 0, Outer - 1)
dYD(n, j) == RMul(dY(n, j), Dv(n, j))

Engines == {cpu, cuda}
NoOutput(e) == e.X_grad = <<>> /\ e.scale_grad = <<>> /\ e.bias_grad = <<>>

\* C1: in both engines a call with feature size 1 fails, and it fails before
\* any output is requested or written, before a scratch buffer is obtained and
\* before the two-phase computation is launched.
C1_RejectedBeforeAnyEffect ==
  \A e \in Engines :
    (e.status # "idle" /\ Feature = 1) =>
      (e.status = "failed" /\ e.events = <<>> /\ NoOutput(e))

C1_Witness ==
  /\ Feature = 1
  /\ cpu.status = "failed"
  /\ cuda.status = "failed"

\* C2: in every accepted call of the dense engine,
\* dX[n][j] = B[n][j] - meanB[n] - D[n][j] * meanC[n], the means taken over the
\* features of row n.
C2_InputGradient ==
  cpu.status = "ok" =>
    \A n \in 0..(Outer - 1), j \in 0..(Feature - 1) :
      cpu.X_grad[n * Feature + j + 1] =
        RSub(RSub(Bv(n, j), MeanOverFeature(Bv, n)),
             RMul(Dv(n, j), MeanOverFeature(BDv, n)))

C2_Witness ==
  /\ cpu.status = "ok"
  /\ Outer >= 2 /\ Feature >= 2
  /\ cpu.X_grad[1] # cpu.X_grad[Feature + 1]
  /\ cpu.X_grad[1] # cpu.X_grad[2]
  /\ MeanOverFeature(BDv, 0) # Zero

\* C3: in every accepted call the scale gradient of feature j is the sum over
\* the outer rows of dY * (X - mean) * inv_std, and a call that differs only in
\* the scale input gives the same scale gradient.
C3_ScaleGradient ==
  cpu.status = "ok" =>
    /\ \A j \in 0..(Feature - 1) : cpu.scale_grad[j + 1] = SumOverOuter(dYD, j)
    /\ (again.kind = "scale" => again.res.scale_grad = cpu.scale_grad)

C3_Witness ==
  /\ cpu.status = "ok"
  /\ again.kind = "scale"
  /\ Outer >= 2 /\ Feature >= 2
  /\ cpu.scale_grad[1] # cpu.scale_grad[2]
  /\ cpu.scale_grad[1] # Zero
  /\ again.res.X_grad # cpu.X_grad

\* C4: in every accepted call the bias gradient of feature j is the sum over
\* the outer rows of dY, and a call with the same dY and shape but another X,
\* scale, mean or inverse std-dev gives the same bias gradient.
C4_BiasGradient ==
  cpu.status = "ok" =>
    /\ \A j \in 0..(Feature - 1) : cpu.bias_grad[j + 1] = SumOverOuter(dY, j)
    /\ (again.kind \in Perturbations => again.res.bias_grad = cpu.bias_grad)

C4_Witness ==
  /\ cpu.status = "ok"
  /\ again.kind = "all"
  /\ Outer >= 2 /\ Feature >= 2
  /\ cpu.bias_grad[1] # cpu.bias_grad[2]
  /\ again.res.scale_grad # cpu.scale_grad

\* C5: on the same inputs the partitioned engine produces the same dX, scale
\* gradient and bias gradient as the dense engine, whatever the outer size.
C5_EnginesAgree ==
  (cpu.status = "ok" /\ cuda.status = "ok") =>
    /\ cuda.X_grad = cpu.X_grad
    /\ cuda.scale_grad = cpu.scale_grad
    /\ cuda.bias_grad = cpu.bias_grad

C5_Witness ==
  /\ cpu.status = "ok" /\ cuda.status = "ok"
  /\ Outer > part_size /\ Outer % part_size # 0
  /\ cuda.scale_grad[1] # Zero
  /\ cuda.scale_grad # cuda.bias_grad

\* C6: multiplying dY by a constant k and keeping the other inputs multiplies
\* each of dX, the scale gradient and the bias gradient by k.
C6_Linearity ==
  (cpu.status = "ok" /\ again.kind = "scaled") =>
    /\ again.res.X_grad = ScaleBy(again.k, cpu.X_grad)
    /\ again.res.scale_grad = ScaleBy(again.k, cpu.scale_grad)
    /\ again.res.bias_grad = ScaleBy(again.k, cpu.bias_grad)

C6_Witness ==
  /\ cpu.status = "ok" /\ again.kind = "scaled" /\ again.k = 3
  /\ Outer >= 2 /\ Feature >= 2
  /\ cpu.X_grad[1] # Zero
  /\ cpu.scale_grad[1] # Zero
  /\ cpu.bias_grad[1] # Zero

\* C7: every call an engine accepts has a feature size greater than 1; a
\* feature size of 0 is rejected like a feature size of 1.
C7_AcceptedFeatureSizeAboveOne ==
  \A e \in Engines : e.status = "ok" => Feature > 1

\* C8: both engines resolve a negative axis by adding the rank; the outer
\* size is the product of the dimensions before the resolved axis and the
\* feature size the product from it on, so their product is the element count,
\* axis -1 selects the last dimension, and axes a and a - rank split alike.
C8_AxisSplit ==
  \A e \in Engines :
    e.status # "idle" =>
      /\ e.N = Outer /\ e.M = Feature
      /\ e.N * e.M = ProdSeq(X_shape)
      /\ (axis_ = -1 => e.M = X_shape[Len(X_shape)])
      /\ LET alias == IF axis_ >= 0 THEN axis_ - Len(X_shape) ELSE axis_ + Len(X_shape)
         IN SplitShape(X_shape, alias) = [N |-> e.N, M |-> e.M]

C8_Witness ==
  /\ cpu.status = "ok" /\ cuda.status = "ok"
  /\ axis_ = -1 /\ Len(X_shape) = 2
  /\ cpu.N = 2 /\ cpu.M = 2

\* C9: for every kernel that runs, the statistics type is at least as wide
\* as the data type.
C9_StatisticsAtLeastAsWide ==
  \A e \in Engines : e.status # "idle" => BitWidth(e.U) >= BitWidth(e.T)

\* C10: under every interleaving of the Phase-1 workers each outer row is
\* accumulated by exactly one partition, no scratch slot is written by workers
\* of two partitions, Phase 2 reads a slot only after every Phase-1 write, and
\* the final scale and bias gradients are those of the sums over all rows.
C10_PhaseOrdering ==
  /\ ~par.clash
  /\ ~par.early
  /\ (par.done2 # {} => par.done1 = Partitions)
  /\ \A i \in 1..Len(par.rowsBy) : par.rowsBy[i] <= 1
  /\ (par.done1 = Partitions => \A i \in 1..Len(par.rowsBy) : par.rowsBy[i] = 1)
  /\ (par.pc = "done" =>
        \A j \in 0..(Feature - 1) :
          /\ par.scale_grad[j + 1] = SumOverOuter(dYD, j)
          /\ par.bias_grad[j + 1] = SumOverOuter(dY, j))

C10_Witness ==
  /\ par.pc = "done"
  /\ Outer > part_size
  /\ par.scale_grad[1] # Zero
  /\ par.scale_grad # par.bias_grad
====
